---- MODULE Spec2Model ----
(***************************************************************************)
(* MDIO phy registers of stm32-eth (src/phy/reg.rs): the register value    *)
(* types generated by impl_phy_registers!, their field getters and         *)
(* setters, and the Phy methods layered over the transport's read/modify.  *)
(***************************************************************************)
EXTENDS Naturals, FiniteSets

(* ---------------------------------------------------------------------- *)
(* u16 arithmetic                                                          *)
(* ---------------------------------------------------------------------- *)

\* Width of the wrapped value: `pub struct $NAME(pub u16)`.
Width == 16

RECURSIVE BitAndN(_, _, _)
BitAndN(a, b, n) ==
    IF n = 0 THEN 0
    ELSE (a % 2) * (b % 2) + 2 * BitAndN(a \div 2, b \div 2, n - 1)

RECURSIVE BitOrN(_, _, _)
BitOrN(a, b, n) ==
    IF n = 0 THEN 0
    ELSE (IF (a % 2) + (b % 2) > 0 THEN 1 ELSE 0)
         + 2 * BitOrN(a \div 2, b \div 2, n - 1)

RECURSIVE BitXorN(_, _, _)
BitXorN(a, b, n) ==
    IF n = 0 THEN 0
    ELSE (((a % 2) + (b % 2)) % 2) + 2 * BitXorN(a \div 2, b \div 2, n - 1)

\* The u16 operators `&`, `|` and `^` of the accessors.
BitAnd(a, b) == BitAndN(a, b, Width)
BitOr(a, b) == BitOrN(a, b, Width)
BitXor(a, b) == BitXorN(a, b, Width)

(* ---------------------------------------------------------------------- *)
(* Register kinds and their field tables                                   *)
(* ---------------------------------------------------------------------- *)

Bcr == "Bcr"
Bsr == "Bsr"
Phyidr1 == "Phyidr1"
Phyidr2 == "Phyidr2"
Anar == "Anar"
Anlpar == "Anlpar"

\* The register kinds declared by the top-level invocation.
Registers == {Bcr, Bsr, Phyidr1, Phyidr2, Anar, Anlpar}

ADDRESS_swapped(Reg) ==
    CASE Reg = Bcr -> \H00
      [] Reg = Bsr -> \H01
      [] Reg = Phyidr1 -> \H02
      [] Reg = Phyidr2 -> \H03
      [] Reg = Anar -> \H05
      [] Reg = Anlpar -> \H04

\* `const ADDRESS: u8 = $addr`
ADDRESS(Reg) ==
    CASE Reg = Bcr -> \H00
      [] Reg = Bsr -> \H01
      [] Reg = Phyidr1 -> \H02
      [] Reg = Phyidr2 -> \H03
      [] Reg = Anar -> \H04
      [] Reg = Anlpar -> \H05

\* One `$mask $CONST $getter $setter` line of a table; setter "" when the
\* line names no setter.
Member(Reg, mask, CONST, getter, setter) ==
    [Reg |-> Reg, mask |-> mask, CONST |-> CONST,
     getter |-> getter, setter |-> setter]

BcrMembers ==
    { Member(Bcr, \H8000, "SOFT_RESET", "soft_reset", "set_soft_reset"),
      Member(Bcr, \H4000, "LOOPBACK", "loopback", "set_loopback"),
      Member(Bcr, \H2000, "FORCE_100", "force_100", "set_force_100"),
      Member(Bcr, \H1000, "ENABLE_AUTONEG", "enable_autoneg", "set_enable_autoneg"),
      Member(Bcr, \H0800, "POWER_DOWN", "power_down", "set_power_down"),
      Member(Bcr, \H0400, "ISOLATE", "isolate", "set_isolate"),
      Member(Bcr, \H0200, "RESTART_AUTONEG", "restart_autoneg", "set_restart_autoneg"),
      Member(Bcr, \H0100, "FORCE_FD", "force_fd", "set_force_fd"),
      Member(Bcr, \H0080, "COLLISION_TEST", "collision_test", "set_collision_test"),
      Member(Bcr, \H0020, "HP_MDIX", "hp_mdix", "set_hp_mdix"),
      Member(Bcr, \H0010, "FORCE_MDI", "force_mdi", "set_force_mdi"),
      Member(Bcr, \H0008, "DISABLE_MDIX", "disable_mdix", "set_disable_mdix"),
      Member(Bcr, \H0004, "DISABLE_FAR_END_FAULT", "disable_far_end_fault",
             "set_disable_far_end_fault"),
      Member(Bcr, \H0002, "DISABLE_TRANSMIT", "disable_transmit", "set_disable_transmit"),
      Member(Bcr, \H0001, "DISABLE_LEDS", "disable_leds", "set_disable_leds") }

BsrMembers ==
    { Member(Bsr, \H8000, "CAPABLE_T4", "capable_t4", ""),
      Member(Bsr, \H4000, "CAPABLE_100_FD", "capable_100_fd", ""),
      Member(Bsr, \H2000, "CAPABLE_100_HD", "capable_100_hd", ""),
      Member(Bsr, \H1000, "CAPABLE_10_FD", "capable_10_fd", ""),
      Member(Bsr, \H0800, "CAPABLE_10_HD", "capable_10_hd", ""),
      Member(Bsr, \H0020, "AN_COMPLETE", "an_complete", ""),
      Member(Bsr, \H0010, "REMOTE_FAULT", "remote_fault", ""),
      Member(Bsr, \H0008, "AUTONEG_CAPABLE", "autoneg_capable", ""),
      Member(Bsr, \H0004, "LINK_STATUS", "link_status", ""),
      Member(Bsr, \H0002, "JABBER_TEST", "jabber_test", ""),
      Member(Bsr, \H0001, "EXTENDED_CAPABLE", "extended_capable", "") }

AnarMembers ==
    { Member(Anar, \H0400, "ADV_PAUSE", "adv_pause", "set_adv_pause"),
      Member(Anar, \H0100, "ADV_100_FD", "adv_100_fd", "set_adv_100_fd"),
      Member(Anar, \H0080, "ADV_100_HD", "adv_100_hd", "set_adv_100_hd"),
      Member(Anar, \H0040, "ADV_10_FD", "adv_10_fd", "set_adv_10_fd"),
      Member(Anar, \H0020, "ADV_10_HD", "adv_10_hd", "set_adv_10_hd") }

AnlparMembers ==
    { Member(Anlpar, \H0400, "LP_PAUSE", "lp_pause", ""),
      Member(Anlpar, \H0100, "LP_100_FD", "lp_100_fd", ""),
      Member(Anlpar, \H0080, "LP_100_HD", "lp_100_hd", ""),
      Member(Anlpar, \H0040, "LP_10_FD", "lp_10_fd", ""),
      Member(Anlpar, \H0020, "LP_10_HD", "lp_10_hd", "") }

\* Every member line of the invocation; Phyidr1 and Phyidr2 declare none.
reg_members == BcrMembers \cup BsrMembers \cup AnarMembers \cup AnlparMembers

\* The members for which reg_member generates a getter / a setter.
reg_getters == {m \in reg_members : m.getter # ""}
reg_setters == {m \in reg_members : m.setter # ""}

\* The members for which phy_method generates a Phy getter / a Phy setter.
phy_getters == {m \in reg_members : m.getter # ""}
phy_setters == {m \in reg_members : m.setter # ""}

(* ---------------------------------------------------------------------- *)
(* Register members                                                        *)
(* ---------------------------------------------------------------------- *)

reg_getter_or(mask, self) == BitOr(self, mask) = mask

reg_getter_self(mask, self) == BitAnd(self, mask) = self

\* `self.0 & $mask == $mask`
reg_getter(mask, self) == BitAnd(self, mask) = mask

reg_setter_toggle(mask, b, self) ==
    IF b THEN BitOr(self, mask)
    ELSE BitXor(self, mask)

reg_setter_noclear(mask, b, self) ==
    IF b THEN BitOr(self, mask)
    ELSE BitAnd(self, BitOr(self, mask))

reg_setter_clear(mask, b, self) ==
    IF b THEN BitOr(self, mask)
    ELSE BitAnd(self, mask)

reg_setter_assign(mask, b, self) ==
    IF b THEN mask
    ELSE BitAnd(self, BitXor(self, mask))

\* `if b { self.0 | $mask } else { self.0 & (self.0 ^ $mask) }`
reg_setter(mask, b, self) ==
    IF b THEN BitOr(self, mask)
    ELSE BitAnd(self, BitXor(self, mask))

(* ---------------------------------------------------------------------- *)
(* State                                                                   *)
(* ---------------------------------------------------------------------- *)

VARIABLES
    kind,    \* register value under test: its register kind ($NAME)
    val,     \* register value under test: the wrapped u16 (self.0)
    lastOp,  \* the accessor applied last to the register value, its result
    nsteps,  \* accessors applied to the register value so far
    dev,     \* the PHY's registers, by MDIO address
    pc,      \* per caller: "idle", or "modify" between the two bus cycles
    call,    \* per caller: the Phy setter call in flight
    obs,     \* the last bus transaction and what the Phy method returned
    quota,   \* per caller: Phy method calls it may still start
    faults   \* bus cycles that failed so far

regvars == <<kind, val, lastOp, nsteps>>
phyvars == <<dev, pc, call, obs, quota, faults>>
vars == <<kind, val, lastOp, nsteps, dev, pc, call, obs, quota, faults>>

\* Bounds of the exploration.
MaxSteps == 2
MaxOps == 2
MaxFaults == 1

\* Callers sharing the `&Phy` handle.
Callers == {1, 2}

Addrs == {ADDRESS(Reg) : Reg \in Registers}

\* Raw values the register value under test starts from.
RawValues ==
    {\H0000, \HFFFF, \H9000, \H0024, \H1000, \H3100, \H01E1, \H0040,
     \H5A5A, \HA5A5, \H7FFF, \HFBFA, \H8000, \H0001, \H782D, \H45E1,
     \HC0F1, \H0FF0}

\* Register contents the device starts with.
DevInit ==
    { [a \in Addrs |->
         CASE a = ADDRESS(Bcr) -> i[1]
           [] a = ADDRESS(Bsr) -> \H782D
           [] a = ADDRESS(Phyidr1) -> \H0007
           [] a = ADDRESS(Phyidr2) -> \HC0F1
           [] a = ADDRESS(Anar) -> i[2]
           [] a = ADDRESS(Anlpar) -> \H45E1] :
      i \in {<<\H0000, \HFFFF>>, <<\H3100, \H01E1>>, <<\HFFFF, \H0000>>} }

ZeroDev == [a \in Addrs |-> 0]

NoMember == Member("", 0, "", "", "")
NoFollow == [CONST |-> "", b |-> FALSE, before |-> 0]
NoOp ==
    [op |-> "none", CONST |-> "", mask |-> 0, b |-> FALSE, before |-> 0,
     ret |-> FALSE, follows |-> NoFollow]

NoCall == [m |-> NoMember, b |-> FALSE, r |-> 0, pre |-> ZeroDev, clean |-> TRUE]
NoOver == [method |-> "", b |-> FALSE]

\* What a Phy method hands back to its caller.
Ret(tag, b, raw) == [tag |-> tag, b |-> b, raw |-> raw]
NoRet == Ret("none", FALSE, 0)
Failure == Ret("fail", FALSE, 0)
Pending == Ret("pending", FALSE, 0)

\* A bus cycle as seen on the bus: the Phy method that issued it (with its
\* argument) and what the method returned.  A write cycle also records
\* whether the call ran undisturbed, and the other caller's write to the
\* same register that it follows directly.
Cycle(c, method, b, op, addr, ok, ret) ==
    [caller |-> c, method |-> method, b |-> b, op |-> op, addr |-> addr,
     ok |-> ok, ret |-> ret, clean |-> TRUE, over |-> NoOver]

NoObs == Cycle(0, "", FALSE, "none", 0, TRUE, NoRet)

(* ---------------------------------------------------------------------- *)
(* Register value accessors applied to a value                             *)
(* ---------------------------------------------------------------------- *)

InitReg ==
    /\ kind \in Registers
    /\ val \in RawValues
    /\ lastOp = NoOp
    /\ nsteps = 0

\* value.$setter(b)
RegSet(m, b) ==
    /\ nsteps < MaxSteps
    /\ m.Reg = kind
    /\ val' = reg_setter(m.mask, b, val)
    /\ lastOp' = [op |-> "set", CONST |-> m.CONST, mask |-> m.mask, b |-> b,
                  before |-> val, ret |-> FALSE, follows |-> NoFollow]
    /\ nsteps' = nsteps + 1
    /\ UNCHANGED kind

\* value.$getter()
RegGet(m) ==
    /\ nsteps < MaxSteps
    /\ m.Reg = kind
    /\ lastOp' = [op |-> "get", CONST |-> m.CONST, mask |-> m.mask, b |-> FALSE,
                  before |-> val, ret |-> reg_getter(m.mask, val),
                  follows |-> IF lastOp.op = "set"
                              THEN [CONST |-> lastOp.CONST, b |-> lastOp.b,
                                    before |-> lastOp.before]
                              ELSE NoFollow]
    /\ nsteps' = nsteps + 1
    /\ UNCHANGED <<kind, val>>

NextReg ==
    \/ \E m \in reg_setters, b \in BOOLEAN : RegSet(m, b)
    \/ \E m \in reg_getters : RegGet(m)

(* ---------------------------------------------------------------------- *)
(* The transport behind the Phy handle                                     *)
(* ---------------------------------------------------------------------- *)

\* Phy::read::<R>(): one MDIO read cycle at R::ADDRESS, the raw value
\* wrapped as R; the cycle may fail.
read(Reg, d, ok) ==
    IF ok THEN Ret("reg", FALSE, d[ADDRESS(Reg)]) ELSE Failure

\* Phy::write::<R>(value): one MDIO write cycle at R::ADDRESS; a cycle that
\* fails leaves the device as it was.
write(Reg, value, d, ok) ==
    IF ok THEN [d EXCEPT ![ADDRESS(Reg)] = value] ELSE d

(* ---------------------------------------------------------------------- *)
(* `Phy` methods                                                           *)
(* ---------------------------------------------------------------------- *)

\* The whole-register getter `$getter` of each top-level line.
RegisterGetter(Reg) ==
    CASE Reg = Bcr -> "bcr"
      [] Reg = Bsr -> "bsr"
      [] Reg = Phyidr1 -> "phyidr1"
      [] Reg = Phyidr2 -> "phyidr2"
      [] Reg = Anar -> "anar"
      [] Reg = Anlpar -> "anlpar"

phy_methods_Reg_first(m) == Bcr

\* The `$Reg` phy_methods hands to every phy_method of a table: the `$NAME`
\* of the register the table belongs to.
phy_methods_Reg(m) == m.Reg

phy_getter_default(m, rd) ==
    IF rd.tag = "fail" THEN Ret("bool", reg_getter(m.mask, 0), 0)
    ELSE Ret("bool", reg_getter(m.mask, rd.raw), 0)

\* `self.read::<$Reg>().$getter()`
phy_getter(m, rd) ==
    IF rd.tag = "fail" THEN Failure
    ELSE Ret("bool", reg_getter(m.mask, rd.raw), 0)

phy_setter_raw(m, b, r) == reg_setter(m.mask, b, 0)

\* The closure of phy_setter: `|r: &mut $Reg| { r.$setter(b); }`
phy_setter(m, b, r) == reg_setter(m.mask, b, r)

\* The outcomes the next bus cycle may have: it completes, or it fails.
Outcomes == IF faults < MaxFaults THEN {TRUE, FALSE} ELSE {TRUE}

\* Caller c may start a Phy method call; Start(c) records that it did.
MayStart(c) == pc[c] = "idle" /\ quota[c] > 0
Start(c) == quota' = [quota EXCEPT ![c] = quota[c] - 1]

Fault(ok) == faults' = IF ok THEN faults ELSE faults + 1

\* A bus cycle of caller c falls between the two cycles of the others' calls.
Touch(c) ==
    [x \in Callers |->
        IF x # c /\ pc[x] = "modify" THEN [call[x] EXCEPT !.clean = FALSE]
        ELSE call[x]]

InitPhy ==
    /\ dev \in DevInit
    /\ pc = [c \in Callers |-> "idle"]
    /\ call = [c \in Callers |-> NoCall]
    /\ obs = NoObs
    /\ faults = 0

\* phy.$getter() -> $NAME : the whole-register fetch.
PhyRegister(c, Reg, ok) ==
    /\ MayStart(c)
    /\ Fault(ok)
    /\ obs' = Cycle(c, RegisterGetter(Reg), FALSE, "read", ADDRESS(Reg), ok,
                    read(Reg, dev, ok))
    /\ call' = Touch(c)
    /\ Start(c)
    /\ UNCHANGED <<dev, pc>>

\* phy.$getter() -> bool : the per-field read.
PhyGetter(c, m, ok) ==
    /\ MayStart(c)
    /\ Fault(ok)
    /\ LET Reg == phy_methods_Reg(m)
       IN  obs' = Cycle(c, m.getter, FALSE, "read", ADDRESS(Reg), ok,
                        phy_getter(m, read(Reg, dev, ok)))
    /\ call' = Touch(c)
    /\ Start(c)
    /\ UNCHANGED <<dev, pc>>

\* phy.$setter(b), first bus cycle: modify reads the register.
PhySetterRead(c, m, b, ok) ==
    /\ MayStart(c)
    /\ Fault(ok)
    /\ LET Reg == phy_methods_Reg(m)
           rd == read(Reg, dev, ok)
       IN  /\ obs' = Cycle(c, m.setter, b, "read", ADDRESS(Reg), ok,
                           IF ok THEN Pending ELSE Failure)
           /\ call' = [Touch(c) EXCEPT ![c] =
                         IF ok THEN [m |-> m, b |-> b, r |-> rd.raw,
                                     pre |-> dev, clean |-> TRUE]
                         ELSE NoCall]
    /\ pc' = [pc EXCEPT ![c] = IF ok THEN "modify" ELSE "idle"]
    /\ Start(c)
    /\ UNCHANGED dev

\* phy.$setter(b), second bus cycle: modify applies the closure to the value
\* it read and writes the result back.
PhySetterWrite(c, ok) ==
    /\ pc[c] = "modify"
    /\ Fault(ok)
    /\ LET k == call[c]
           Reg == phy_methods_Reg(k.m)
       IN  /\ dev' = write(Reg, phy_setter(k.m, k.b, k.r), dev, ok)
           /\ obs' = [Cycle(c, k.m.setter, k.b, "write", ADDRESS(Reg), ok,
                             IF ok THEN Ret("self", FALSE, 0) ELSE Failure)
                       EXCEPT !.clean = k.clean,
                              !.over = IF /\ obs.op = "write"
                                          /\ obs.ok
                                          /\ obs.caller # c
                                          /\ obs.addr = ADDRESS(Reg)
                                       THEN [method |-> obs.method, b |-> obs.b]
                                       ELSE NoOver]
    /\ call' = [Touch(c) EXCEPT ![c] = NoCall]
    /\ pc' = [pc EXCEPT ![c] = "idle"]
    /\ UNCHANGED quota

NextPhy ==
    \/ \E c \in Callers, Reg \in Registers, ok \in Outcomes : PhyRegister(c, Reg, ok)
    \/ \E c \in Callers, m \in phy_getters, ok \in Outcomes : PhyGetter(c, m, ok)
    \/ \E c \in Callers, m \in phy_setters, b \in BOOLEAN, ok \in Outcomes :
          PhySetterRead(c, m, b, ok)
    \/ \E c \in Callers, ok \in Outcomes : PhySetterWrite(c, ok)

NextSetters ==
    \/ \E c \in Callers, m \in phy_setters, b \in BOOLEAN, ok \in Outcomes :
          PhySetterRead(c, m, b, ok)
    \/ \E c \in Callers, ok \in Outcomes : PhySetterWrite(c, ok)

(* ---------------------------------------------------------------------- *)
(* Specifications                                                          *)
(* ---------------------------------------------------------------------- *)

IdleValue ==
    /\ kind = Bcr
    /\ val = 0
    /\ lastOp = NoOp
    /\ nsteps = 0

\* One context owns the Phy handle and calls its methods one after another.
Init ==
    /\ InitPhy
    /\ quota = [c \in Callers |-> IF c = 1 THEN MaxOps ELSE 0]
    /\ IdleValue

Next == NextPhy /\ UNCHANGED regvars

Spec == Init /\ [][Next]_vars

\* Two contexts share the `&Phy` handle and each calls one setter; nothing
\* orders their bus cycles.
InitRace ==
    /\ InitPhy
    /\ quota = [c \in Callers |-> 1]
    /\ IdleValue

NextRace == NextSetters /\ UNCHANGED regvars

SpecRace == InitRace /\ [][NextRace]_vars

\* The accessors of one register value, from every kind and raw value.
InitValue ==
    /\ InitReg
    /\ dev = ZeroDev
    /\ pc = [c \in Callers |-> "idle"]
    /\ call = [c \in Callers |-> NoCall]
    /\ obs = NoObs
    /\ quota = [c \in Callers |-> 0]
    /\ faults = 0

NextValue == NextReg /\ UNCHANGED phyvars

SpecReg == InitValue /\ [][NextValue]_vars

(* ---------------------------------------------------------------------- *)
(* Properties                                                              *)
(* ---------------------------------------------------------------------- *)

\* Bit i of a value, by arithmetic.
Bit(v, i) == (v \div (2 ^ i)) % 2
Bits == 0 .. (Width - 1)
MaskBits(mask) == {i \in Bits : Bit(mask, i) = 1}
BitOf(b) == IF b THEN 1 ELSE 0
AllSet(mask, v) == \A i \in MaskBits(mask) : Bit(v, i) = 1

\* v with the bits of mask equal to b and every other bit as in before.
FieldWritten(v, mask, b, before) ==
    \A i \in Bits :
        Bit(v, i) = IF i \in MaskBits(mask) THEN BitOf(b) ELSE Bit(before, i)

\* The clause-22 offsets of IEEE 802.3.
Clause22Offset(Reg) ==
    CASE Reg = "Bcr" -> 0
      [] Reg = "Bsr" -> 1
      [] Reg = "Phyidr1" -> 2
      [] Reg = "Phyidr2" -> 3
      [] Reg = "Anar" -> 4
      [] Reg = "Anlpar" -> 5

\* The register kind whose table or top-level line declares a Phy method.
Declares(method) ==
    CHOOSE Reg \in Registers :
        \/ RegisterGetter(Reg) = method
        \/ \E m \in reg_members :
              m.Reg = Reg /\ (m.getter = method \/ m.setter = method)

SetterMember(method) == CHOOSE m \in reg_setters : m.setter = method

\* The write cycle of caller c's setter call completes in this step.
WriteDone(c) == pc[c] = "modify" /\ pc'[c] = "idle" /\ obs'.ok

\* C1: a per-field write that no other accessor's bus cycle interleaves
\* leaves the field's register with the mask's bits equal to b and every
\* other bit as before the call, and every other register as before the
\* call; so after any sequence of such writes.
C1_UndisturbedWriteFrame ==
    [][\A c \in Callers :
          (WriteDone(c) /\ call[c].clean) =>
             LET k == call[c]
                 a == Clause22Offset(k.m.Reg)
             IN  /\ FieldWritten(dev'[a], k.m.mask, k.b, k.pre[a])
                 /\ \A x \in Addrs \ {a} : dev'[x] = k.pre[x]]_vars

C1_Witness ==
    /\ obs.op = "write" /\ obs.ok /\ obs.clean
    /\ \A c \in Callers : quota[c] = 0 /\ pc[c] = "idle"
    /\ dev \notin DevInit

\* C2: when a setter's write cycle directly follows another caller's write
\* of a different field of the same register, made after this setter's own
\* read cycle, the register is left with the other caller's field as this
\* setter read it: the other caller's change is overwritten.
C2_SecondWriteClobbers ==
    [][\A c \in Callers :
          (/\ WriteDone(c)
           /\ obs'.over.method # ""
           /\ obs'.over.method # obs'.method) =>
             LET f == SetterMember(obs'.over.method)
                 a == obs'.addr
             IN  \A i \in MaskBits(f.mask) :
                    /\ Bit(dev'[a], i) = Bit(call[c].r, i)
                    /\ Bit(call[c].r, i) = Bit(call[c].pre[a], i)]_vars

C2_Witness ==
    /\ obs.op = "write" /\ obs.ok
    /\ obs.over.method # ""
    /\ obs.over.method # obs.method
    /\ AllSet(SetterMember(obs.over.method).mask, dev[obs.addr]) # obs.over.b

\* C3: a register setter with true leaves v | m, with false v & ~m: the
\* mask's bits equal b, every other bit as it was; the false branch
\* v & (v ^ m) is v & ~m.
C3_SetterMaskExact ==
    lastOp.op = "set" =>
        /\ val \in 0 .. (2 ^ Width - 1)
        /\ FieldWritten(val, lastOp.mask, lastOp.b, lastOp.before)
        /\ ~lastOp.b =>
              val = BitAnd(lastOp.before, (2 ^ Width - 1) - lastOp.mask)

C3_Witness ==
    /\ lastOp.op = "set"
    /\ ~lastOp.b
    /\ AllSet(lastOp.mask, lastOp.before)
    /\ lastOp.before # lastOp.mask
    /\ val # lastOp.before

\* C4: a field getter returns true exactly when every bit of the field's
\* mask is set in the value.
C4_GetterExactMatch ==
    lastOp.op = "get" => (lastOp.ret = AllSet(lastOp.mask, lastOp.before))

C4_Witness ==
    /\ lastOp.op = "get"
    /\ kind = Bsr
    /\ lastOp.ret
    /\ lastOp.before # lastOp.mask

\* C5: the getter of a writable field, applied right after that field's
\* setter, returns the boolean the setter was given.
C5_GetAfterSet ==
    (lastOp.op = "get" /\ lastOp.follows.CONST = lastOp.CONST) =>
        lastOp.ret = lastOp.follows.b

C5_Witness ==
    /\ lastOp.op = "get"
    /\ lastOp.follows.CONST = lastOp.CONST
    /\ ~lastOp.follows.b
    /\ AllSet(lastOp.mask, lastOp.follows.before)
    /\ ~lastOp.ret

\* No bit belongs to the masks of two members of one register kind.
MasksDisjoint ==
    \A m1, m2 \in reg_members :
        (m1 # m2 /\ m1.Reg = m2.Reg) =>
           MaskBits(m1.mask) \cap MaskBits(m2.mask) = {}

\* C6: the masks of one register kind share no bit, and a field's setter
\* leaves the getter result of every other field of the kind as it was.
C6_FieldIndependence ==
    /\ MasksDisjoint
    /\ lastOp.op = "set" =>
          \A g \in reg_getters :
             (g.Reg = kind /\ g.CONST # lastOp.CONST) =>
                reg_getter(g.mask, val) = reg_getter(g.mask, lastOp.before)

C6_Witness ==
    /\ lastOp.op = "set"
    /\ val # lastOp.before
    /\ \E g \in reg_getters :
          g.Reg = kind /\ g.CONST # lastOp.CONST /\ reg_getter(g.mask, val)

\* C7 as stated: of the Bcr value 0x9000, soft_reset() and loopback() are
\* true and force_100() is false.
C7_AsStated ==
    (kind = Bcr /\ lastOp.op = "get" /\ lastOp.before = \H9000) =>
        /\ lastOp.CONST = "SOFT_RESET" => lastOp.ret
        /\ lastOp.CONST = "LOOPBACK" => lastOp.ret
        /\ lastOp.CONST = "FORCE_100" => ~lastOp.ret

\* C7: of the Bcr value 0x9000 (soft reset and autonegotiation enable set),
\* soft_reset() and enable_autoneg() are true, loopback() and force_100()
\* are false.
C7_Value9000 ==
    (kind = Bcr /\ lastOp.op = "get" /\ lastOp.before = \H9000) =>
        /\ lastOp.CONST = "SOFT_RESET" => lastOp.ret
        /\ lastOp.CONST = "ENABLE_AUTONEG" => lastOp.ret
        /\ lastOp.CONST = "LOOPBACK" => ~lastOp.ret
        /\ lastOp.CONST = "FORCE_100" => ~lastOp.ret

C7_Witness ==
    /\ kind = Bcr
    /\ lastOp.op = "get"
    /\ lastOp.before = \H9000
    /\ lastOp.CONST = "LOOPBACK"
    /\ ~lastOp.ret

C9_AddressBinding ==
    /\ \A Reg \in Registers : ADDRESS(Reg) = Clause22Offset(Reg)
    /\ \A R1, R2 \in Registers : R1 # R2 => ADDRESS(R1) # ADDRESS(R2)
    /\ obs.op # "none" => obs.addr = Clause22Offset(Declares(obs.method))

C9_Witness ==
    /\ obs.op = "write"
    /\ obs.ok
    /\ obs.addr = 4
    /\ Declares(obs.method) = Anar

\* C10: no write cycle goes to address 0x01, 0x02, 0x03 or 0x05, the
\* registers there never change, and a read cycle changes no register.
C10_ReadOnlyRegisters ==
    [][/\ obs'.op = "write" => obs'.addr \in {0, 4}
       /\ \A a \in {1, 2, 3, 5} : dev'[a] = dev[a]
       /\ obs'.op = "read" => dev' = dev]_vars

C10_Witness ==
    /\ obs.op = "read"
    /\ obs.ok
    /\ obs.addr \in {1, 2, 3, 5}
    /\ dev \notin DevInit

====
